---- MODULE Spec2Model ----
(***************************************************************************)
(* r.stream.extract: the command-line driver main() of                     *)
(* raster/r.stream.extract/main.c and the direction table drain.           *)
(*                                                                         *)
(* main() is a straight-line program: define options, G_parser, check the  *)
(* options, open the input maps, allocate the grids, run the stages        *)
(* load_maps, do_astar, [do_accum], extract_streams, thin_streams,         *)
(* close_maps, and exit.  Every library call whose outcome the driver      *)
(* tests (G_parser, G_open_cell_old, G_malloc, the stages) is an input     *)
(* chosen with \E; the raster maps that exist are part of the initial      *)
(* state.  Doubles are modelled by integers; DBL_MAX is the largest finite *)
(* value and INF the value above it.                                       *)
(***************************************************************************)
EXTENDS Integers, Sequences, FiniteSets, TLC

VARIABLES
    pc,            \* position of main()
    opt,           \* the ->answer of every option
    threshold,     \* double threshold
    d8cut,         \* double d8cut
    mont_exp,      \* double mont_exp
    ele_fd,        \* int ele_fd
    acc_fd,        \* int acc_fd
    weight_fd,     \* int weight_fd
    mem,           \* state of the global grid arrays ele, acc, stream, accweight
    log,           \* history of checks, allocations, stage calls and returns
    argsExtract,   \* arguments of the call of extract_streams
    argAccum,      \* argument of the call of do_accum
    accData,       \* contents of acc
    weightData,    \* contents of accweight
    sfd,           \* per cell: do_accum used SFD for the cell
    exitStatus,    \* "running", "EXIT_SUCCESS" or "EXIT_FAILURE"
    fatalMsg,      \* which G_fatal_error ended the run, "" if none
    warned,        \* G_warning was issued
    rasters,       \* the raster maps that exist in the data base
    dOff,          \* two neighbour offsets <<dRow, dCol>> handed to drain
    dCode          \* the codes drain returned for them, -1 before the lookup

mvars == <<pc, opt, threshold, d8cut, mont_exp, ele_fd, acc_fd, weight_fd,
           mem, log, argsExtract, argAccum, accData, weightData, sfd,
           exitStatus, fatalMsg, warned, rasters>>
dvars == <<dOff, dCode>>
vars == <<mvars, dvars>>

----------------------------------------------------------------------------
(* Bounds and value domains *)

\* number of cells of the modelled grid (a chain: cell i drains into i+1)
NCells == 2

\* float.h: the largest finite double (scaled)
DBL_MAX == 100
\* IEEE +infinity
INF == DBL_MAX + 1

NULL == "<NULL>"

\* names the map options are given
MapNames == {"elev", "accmap", "wmap"}

ThresholdAnswers == {"-1", "0", "5"}
D8cutAnswers == {"infinity", "-1", "0", "2"}
MexpAnswers == {"-1", "0", "3", "4"}
\* values a cell of a loaded DCELL map holds
CellValues == {1, DBL_MAX}
\* status a stage returns
StageResults == {-1, 0}
\* what G_open_cell_old returns
OpenResults == {-1, 0}

\* atof() on the option strings G_parser accepts for TYPE_DOUBLE
atof(s) ==
    CASE s = "-1" -> -1
      [] s = "0" -> 0
      [] s = "2" -> 2
      [] s = "3" -> 3
      [] s = "4" -> 4
      [] s = "5" -> 5
      [] s = "infinity" -> INF
      [] OTHER -> 0

\* IEEE addition of non-negative doubles: a sum that rounds to a value above
\* DBL_MAX overflows to +infinity, a sum within rounding of DBL_MAX stays finite
DAdd(a, b) ==
    IF a = INF \/ b = INF THEN INF
    ELSE IF a + b >= 2 * DBL_MAX THEN INF
    ELSE IF a + b > DBL_MAX THEN DBL_MAX
    ELSE a + b

----------------------------------------------------------------------------
(* The direction table *)

\* the table with the last row written in the wrong direction
drain_swapped == << <<7, 6, 5>>, <<8, 0, 4>>, <<3, 2, 1>> >>

\* char drain[3][3]
drain == << <<7, 6, 5>>, <<8, 0, 4>>, <<1, 2, 3>> >>

\* drain[dRow + 1][dCol + 1] (C indexes from 0, a TLA+ tuple from 1)
DrainAt(dRow, dCol) == drain[dRow + 2][dCol + 2]

Offsets == {<<r, c>> : r \in -1..1, c \in -1..1}

----------------------------------------------------------------------------
(* Helpers *)

Arrays == {"ele", "acc", "stream", "accweight"}
Stages == {"load_maps", "do_astar", "do_accum", "extract_streams",
           "thin_streams", "close_maps"}

Logged(kind, name) == \E i \in 1..Len(log) : log[i] = <<kind, name>>
Count(kind, name) == Cardinality({i \in 1..Len(log) : log[i] = <<kind, name>>})
\* position of the first such event, 0 if none
Pos(kind, name) ==
    IF Logged(kind, name)
    THEN CHOOSE i \in 1..Len(log) :
            /\ log[i] = <<kind, name>>
            /\ \A j \in 1..(i - 1) : log[j] # <<kind, name>>
    ELSE 0

\* G_find_cell(name, ""): the raster map exists
G_find_cell(name) == name \in rasters

\* main() with the threshold check placed before the checks of the input maps
Succ_threshold_first(l) ==
    CASE l = "parse" -> "check_threshold"
      [] l = "check_threshold" -> "check_ele"
      [] l = "check_ele" -> "check_acc"
      [] l = "check_acc" -> "check_weight"
      [] l = "check_weight" -> "check_d8cut"
      [] l = "check_d8cut" -> "check_mexp"
      [] l = "check_mexp" -> "check_output"
      [] l = "check_output" -> "open_ele"
      [] l = "open_ele" -> "open_acc"
      [] l = "open_acc" -> "open_weight"
      [] l = "open_weight" -> "allocate"
      [] l = "allocate" -> "load_maps"
      [] l = "in_load_maps" -> "do_astar"
      [] l = "in_do_astar" -> "extract"
      [] l = "in_do_accum" -> "extract_computed"
      [] l = "in_extract_streams" -> "free_inputs"
      [] l = "free_inputs" -> "thin_streams"
      [] l = "in_thin_streams" -> "close_maps"
      [] l = "in_close_maps" -> "free_stream"
      [] l = "free_stream" -> "exit_success"
      [] OTHER -> "exit"

\* main() with thin_streams placed before the extraction
Succ_thin_first(l) ==
    CASE l = "parse" -> "check_ele"
      [] l = "check_ele" -> "check_acc"
      [] l = "check_acc" -> "check_weight"
      [] l = "check_weight" -> "check_threshold"
      [] l = "check_threshold" -> "check_d8cut"
      [] l = "check_d8cut" -> "check_mexp"
      [] l = "check_mexp" -> "check_output"
      [] l = "check_output" -> "open_ele"
      [] l = "open_ele" -> "open_acc"
      [] l = "open_acc" -> "open_weight"
      [] l = "open_weight" -> "allocate"
      [] l = "allocate" -> "load_maps"
      [] l = "in_load_maps" -> "do_astar"
      [] l = "in_do_astar" -> "thin_streams"
      [] l = "in_thin_streams" -> "extract"
      [] l = "in_do_accum" -> "extract_computed"
      [] l = "in_extract_streams" -> "free_inputs"
      [] l = "free_inputs" -> "close_maps"
      [] l = "in_close_maps" -> "free_stream"
      [] l = "free_stream" -> "exit_success"
      [] OTHER -> "exit"

\* the statement order of main(): the position that follows position l
Succ(l) ==
    CASE l = "parse" -> "check_ele"
      [] l = "check_ele" -> "check_acc"
      [] l = "check_acc" -> "check_weight"
      [] l = "check_weight" -> "check_threshold"
      [] l = "check_threshold" -> "check_d8cut"
      [] l = "check_d8cut" -> "check_mexp"
      [] l = "check_mexp" -> "check_output"
      [] l = "check_output" -> "open_ele"
      [] l = "open_ele" -> "open_acc"
      [] l = "open_acc" -> "open_weight"
      [] l = "open_weight" -> "allocate"
      [] l = "allocate" -> "load_maps"
      [] l = "in_load_maps" -> "do_astar"
      [] l = "in_do_astar" -> "extract"
      [] l = "in_do_accum" -> "extract_computed"
      [] l = "in_extract_streams" -> "free_inputs"
      [] l = "free_inputs" -> "thin_streams"
      [] l = "in_thin_streams" -> "close_maps"
      [] l = "in_close_maps" -> "free_stream"
      [] l = "free_stream" -> "exit_success"
      [] OTHER -> "exit"

ThresholdInvalid_lt(t) == t < 0

\* if (threshold <= 0)
ThresholdInvalid(t) == t <= 0

\* if (d8cut < 0)
D8cutInvalid(d) == d < 0

MexpInvalid_range(m) == m < 0 \/ m > 3

\* if (mont_exp < 0)
MexpInvalid(m) == m < 0

AccumNeeded_le(fd) == fd <= 0

\* if (acc_fd < 0): no accumulation map was opened
AccumNeeded(fd) == fd < 0

\* G_fatal_error(): prints the message and exits with EXIT_FAILURE
G_fatal_error(msg) ==
    /\ pc' = "exit"
    /\ exitStatus' = "EXIT_FAILURE"
    /\ fatalMsg' = msg

\* control passes to the next statement
Continue ==
    /\ pc' = Succ(pc)
    /\ UNCHANGED <<exitStatus, fatalMsg>>

\* a stage is entered
Call(stage) ==
    /\ pc' = "in_" \o stage
    /\ log' = Append(log, <<"call", stage>>)
    /\ UNCHANGED <<exitStatus, fatalMsg>>

\* the status of the stage is ignored
Return_unchecked(stage, r) ==
    /\ log' = Append(log, <<IF r < 0 THEN "ret_fail" ELSE "ret_ok", stage>>)
    /\ Continue

\* if (stage(...) < 0) G_fatal_error(...): the stage returns r
Return(stage, r) ==
    /\ log' = Append(log, <<IF r < 0 THEN "ret_fail" ELSE "ret_ok", stage>>)
    /\ IF r < 0 THEN G_fatal_error(stage) ELSE Continue

----------------------------------------------------------------------------
(* Initial state: the options are defined with their default answers *)

MainStart ==
    /\ pc = "parse"
    /\ opt = [elevation |-> NULL, accumulation |-> NULL, weight |-> NULL,
              threshold |-> NULL, d8cut |-> "infinity", mexp |-> "0",
              stream_rast |-> NULL, stream_vect |-> NULL, direction |-> NULL]
    \* the locals are indeterminate until assigned; none is read before
    /\ threshold = 0
    /\ d8cut = 0
    /\ mont_exp = 0
    /\ ele_fd = 0
    /\ acc_fd = 0
    /\ weight_fd = 0
    /\ mem = [a \in Arrays |-> "none"]
    /\ log = <<>>
    /\ argsExtract = <<>>
    /\ argAccum = <<>>
    /\ accData = <<>>
    /\ weightData = <<>>
    /\ sfd = <<>>
    /\ exitStatus = "running"
    /\ fatalMsg = ""
    /\ warned = FALSE

DrainIdle ==
    /\ dOff = << <<0, 0>>, <<0, 0>> >>
    /\ dCode = <<-1, -1>>

Init ==
    /\ MainStart
    /\ rasters \in SUBSET MapNames
    /\ DrainIdle

----------------------------------------------------------------------------
(* Stage bodies (not part of main.c): what the driver's data flow needs *)

\* load_maps(ele_fd, acc_fd, weight_fd) fills a map's array iff its fd is open
Loadable(fd) ==
    IF fd >= 0 THEN [1..NCells -> CellValues] ELSE {<<>>}

\* the quantity cell i injects: its weight, or 1 without a weight map
OwnFlow(w, i) == IF w = <<>> THEN 1 ELSE w[i]

\* accumulation along the chain 1 -> 2 -> ... -> NCells
RECURSIVE AccumAt(_, _)
AccumAt(w, i) ==
    IF i = 1 THEN OwnFlow(w, 1) ELSE DAdd(OwnFlow(w, i), AccumAt(w, i - 1))

Accumulate(w) == [i \in 1..NCells |-> AccumAt(w, i)]

\* "If accumulation is larger than d8cut, SFD is used instead of MFD."
UseSFD(accumulation, cut) == accumulation > cut

----------------------------------------------------------------------------
(* main() *)

ParsedOptions ==
    [elevation : {"elev"},
     accumulation : {NULL, "accmap"},
     weight : {NULL, "wmap"},
     threshold : ThresholdAnswers,
     d8cut : D8cutAnswers,
     mexp : MexpAnswers,
     stream_rast : {NULL, "srast"},
     stream_vect : {NULL, "svect"},
     direction : {NULL, "dir"}]

\* a rejected command line ends the run with EXIT_SUCCESS
G_parser_exit0 ==
    /\ pc = "parse"
    /\ \E ok \in BOOLEAN :
          IF ok
          THEN /\ opt' \in ParsedOptions
               /\ Continue
          ELSE /\ opt' = opt
               /\ pc' = "exit"
               /\ exitStatus' = "EXIT_SUCCESS"
               /\ fatalMsg' = ""
    /\ UNCHANGED <<threshold, d8cut, mont_exp, ele_fd, acc_fd, weight_fd, mem,
                   log, argsExtract, argAccum, accData, weightData, sfd,
                   warned, rasters, dvars>>

\* if (G_parser(argc, argv)) exit(EXIT_FAILURE);
G_parser ==
    /\ pc = "parse"
    /\ \E ok \in BOOLEAN :
          IF ok
          THEN /\ opt' \in ParsedOptions
               /\ Continue
          ELSE /\ opt' = opt
               /\ pc' = "exit"
               /\ exitStatus' = "EXIT_FAILURE"
               /\ fatalMsg' = ""
    /\ UNCHANGED <<threshold, d8cut, mont_exp, ele_fd, acc_fd, weight_fd, mem,
                   log, argsExtract, argAccum, accData, weightData, sfd,
                   warned, rasters, dvars>>

\* if (!G_find_cell(input.ele->answer, "")) G_fatal_error(...)
CheckElevation ==
    /\ pc = "check_ele"
    /\ log' = Append(log, <<"check", "elevation">>)
    /\ IF ~G_find_cell(opt.elevation) THEN G_fatal_error("elevation")
          ELSE Continue
    /\ UNCHANGED <<opt, threshold, d8cut, mont_exp, ele_fd, acc_fd, weight_fd,
                   mem, argsExtract, argAccum, accData, weightData, sfd,
                   warned, rasters, dvars>>

\* if (input.acc->answer) { if (!G_find_cell(...)) G_fatal_error(...) }
CheckAccumulation ==
    /\ pc = "check_acc"
    /\ IF opt.accumulation # NULL
       THEN /\ log' = Append(log, <<"check", "accumulation">>)
            /\ IF ~G_find_cell(opt.accumulation) THEN G_fatal_error("accumulation")
                  ELSE Continue
       ELSE /\ log' = log
            /\ Continue
    /\ UNCHANGED <<opt, threshold, d8cut, mont_exp, ele_fd, acc_fd, weight_fd,
                   mem, argsExtract, argAccum, accData, weightData, sfd,
                   warned, rasters, dvars>>

\* if (input.weight->answer) { if (!G_find_cell(...)) G_fatal_error(...) }
CheckWeight ==
    /\ pc = "check_weight"
    /\ IF opt.weight # NULL
       THEN /\ log' = Append(log, <<"check", "weight">>)
            /\ IF ~G_find_cell(opt.weight) THEN G_fatal_error("weight")
                  ELSE Continue
       ELSE /\ log' = log
            /\ Continue
    /\ UNCHANGED <<opt, threshold, d8cut, mont_exp, ele_fd, acc_fd, weight_fd,
                   mem, argsExtract, argAccum, accData, weightData, sfd,
                   warned, rasters, dvars>>

\* threshold = atof(...); if (threshold <= 0) G_fatal_error(...)
CheckThreshold ==
    /\ pc = "check_threshold"
    /\ threshold' = atof(opt.threshold)
    /\ log' = Append(log, <<"check", "threshold">>)
    /\ IF ThresholdInvalid(threshold') THEN G_fatal_error("threshold")
       ELSE Continue
    /\ UNCHANGED <<opt, d8cut, mont_exp, ele_fd, acc_fd, weight_fd,
                   mem, argsExtract, argAccum, accData, weightData, sfd,
                   warned, rasters, dvars>>

\* "infinity" -> DBL_MAX, else atof and if (d8cut < 0) G_fatal_error(...)
CheckD8cut ==
    /\ pc = "check_d8cut"
    /\ IF opt.d8cut = "infinity"
       THEN /\ d8cut' = DBL_MAX
            /\ log' = log
            /\ Continue
       ELSE /\ d8cut' = atof(opt.d8cut)
            /\ log' = Append(log, <<"check", "d8cut">>)
            /\ IF D8cutInvalid(d8cut') THEN G_fatal_error("d8cut")
               ELSE Continue
    /\ UNCHANGED <<opt, threshold, mont_exp, ele_fd, acc_fd, weight_fd,
                   mem, argsExtract, argAccum, accData, weightData, sfd,
                   warned, rasters, dvars>>

\* mont_exp = atof(...); < 0 is fatal, > 3 warns; no answer: mont_exp = 0
CheckMexp ==
    /\ pc = "check_mexp"
    /\ IF opt.mexp # NULL
       THEN /\ mont_exp' = atof(opt.mexp)
            /\ log' = Append(log, <<"check", "mexp">>)
            /\ IF MexpInvalid(mont_exp')
               THEN /\ G_fatal_error("mexp")
                    /\ warned' = warned
               ELSE /\ warned' = (mont_exp' > 3)
                    /\ Continue
       ELSE /\ mont_exp' = 0
            /\ log' = log
            /\ warned' = warned
            /\ Continue
    /\ UNCHANGED <<opt, threshold, d8cut, ele_fd, acc_fd, weight_fd,
                   mem, argsExtract, argAccum, accData, weightData, sfd,
                   rasters, dvars>>

\* if (stream_rast->answer == NULL && stream_vect->answer == NULL) fatal
CheckOutput ==
    /\ pc = "check_output"
    /\ log' = Append(log, <<"check", "output">>)
    /\ IF opt.stream_rast = NULL /\ opt.stream_vect = NULL
       THEN G_fatal_error("output")
       ELSE Continue
    /\ UNCHANGED <<opt, threshold, d8cut, mont_exp, ele_fd, acc_fd, weight_fd,
                   mem, argsExtract, argAccum, accData, weightData, sfd,
                   warned, rasters, dvars>>

\* ele_fd = G_open_cell_old(...); if (ele_fd < 0) G_fatal_error(...)
OpenElevation ==
    /\ pc = "open_ele"
    /\ \E fd \in OpenResults :
          /\ ele_fd' = fd
          /\ IF fd < 0 THEN G_fatal_error("open elevation")
             ELSE Continue
    /\ UNCHANGED <<opt, threshold, d8cut, mont_exp, acc_fd, weight_fd,
                   mem, log, argsExtract, argAccum, accData, weightData, sfd,
                   warned, rasters, dvars>>

\* acc_fd = G_open_cell_old(...) if an accumulation map is given, else -1
OpenAccumulation ==
    /\ pc = "open_acc"
    /\ IF opt.accumulation # NULL
       THEN \E fd \in OpenResults :
               /\ acc_fd' = fd
               /\ IF fd < 0 THEN G_fatal_error("open accumulation")
                  ELSE Continue
       ELSE /\ acc_fd' = -1
            /\ Continue
    /\ UNCHANGED <<opt, threshold, d8cut, mont_exp, ele_fd, weight_fd,
                   mem, log, argsExtract, argAccum, accData, weightData, sfd,
                   warned, rasters, dvars>>

\* weight_fd = G_open_cell_old(...) if a weight map is given, else -1
OpenWeight ==
    /\ pc = "open_weight"
    /\ IF opt.weight # NULL
       THEN \E fd \in OpenResults :
               /\ weight_fd' = fd
               /\ IF fd < 0 THEN G_fatal_error("open weight")
                  ELSE Continue
       ELSE /\ weight_fd' = -1
            /\ Continue
    /\ UNCHANGED <<opt, threshold, d8cut, mont_exp, ele_fd, acc_fd,
                   mem, log, argsExtract, argAccum, accData, weightData, sfd,
                   warned, rasters, dvars>>

\* the G_malloc calls of main(), in order
Mallocs ==
    <<"ele", "acc", "stream">> \o
        (IF opt.weight # NULL THEN <<"accweight">> ELSE <<>>)

\* ele, acc, stream and (with a weight map) accweight are allocated;
\* G_malloc does not return NULL: out of memory it calls G_fatal_error
Allocate ==
    /\ pc = "allocate"
    /\ \E n \in 0..Len(Mallocs) :
          /\ mem' = [a \in Arrays |->
                        IF \E i \in 1..n : Mallocs[i] = a THEN "live"
                        ELSE mem[a]]
          /\ log' = log \o [i \in 1..n |-> <<"alloc", Mallocs[i]>>]
          /\ IF n < Len(Mallocs) THEN G_fatal_error("G_malloc")
             ELSE Continue
    /\ UNCHANGED <<opt, threshold, d8cut, mont_exp, ele_fd, acc_fd, weight_fd,
                   argsExtract, argAccum, accData, weightData, sfd,
                   warned, rasters, dvars>>

\* load_maps(ele_fd, acc_fd, weight_fd) is entered
Call_load_maps ==
    /\ pc = "load_maps"
    /\ Call("load_maps")
    /\ UNCHANGED <<opt, threshold, d8cut, mont_exp, ele_fd, acc_fd, weight_fd,
                   mem, argsExtract, argAccum, accData, weightData, sfd,
                   warned, rasters, dvars>>

\* if (load_maps(...) < 0) G_fatal_error(...)
Return_load_maps ==
    /\ pc = "in_load_maps"
    /\ \E r \in StageResults :
          /\ Return("load_maps", r)
          /\ IF r < 0
             THEN UNCHANGED <<accData, weightData>>
             ELSE /\ accData' \in Loadable(acc_fd)
                  /\ weightData' \in Loadable(weight_fd)
    /\ UNCHANGED <<opt, threshold, d8cut, mont_exp, ele_fd, acc_fd, weight_fd,
                   mem, argsExtract, argAccum, sfd, warned, rasters, dvars>>

\* do_astar() is entered
Call_do_astar ==
    /\ pc = "do_astar"
    /\ Call("do_astar")
    /\ UNCHANGED <<opt, threshold, d8cut, mont_exp, ele_fd, acc_fd, weight_fd,
                   mem, argsExtract, argAccum, accData, weightData, sfd,
                   warned, rasters, dvars>>

\* if (do_astar() < 0) G_fatal_error(...)
Return_do_astar ==
    /\ pc = "in_do_astar"
    /\ \E r \in StageResults :
          Return("do_astar", r)
    /\ UNCHANGED <<opt, threshold, d8cut, mont_exp, ele_fd, acc_fd, weight_fd,
                   mem, argsExtract, argAccum, accData, weightData, sfd,
                   warned, rasters, dvars>>

\* if (acc_fd < 0): do_accum(d8cut) is entered
Call_do_accum ==
    /\ pc = "extract"
    /\ AccumNeeded(acc_fd)
    /\ Call("do_accum")
    /\ argAccum' = <<d8cut>>
    /\ UNCHANGED <<opt, threshold, d8cut, mont_exp, ele_fd, acc_fd, weight_fd,
                   mem, argsExtract, accData, weightData, sfd,
                   warned, rasters, dvars>>

\* if (do_accum(d8cut) < 0) G_fatal_error(...)
Return_do_accum ==
    /\ pc = "in_do_accum"
    /\ \E r \in StageResults :
          /\ Return("do_accum", r)
          /\ IF r < 0
             THEN UNCHANGED <<accData, sfd>>
             ELSE /\ accData' = Accumulate(weightData)
                  /\ sfd' = [i \in 1..NCells |->
                                UseSFD(accData'[i], argAccum[1])]
    /\ UNCHANGED <<opt, threshold, d8cut, mont_exp, ele_fd, acc_fd, weight_fd,
                   mem, argsExtract, argAccum, weightData, warned, rasters, dvars>>

\* extract_streams(threshold, mont_exp, weight given) is entered, on either
\* branch of if (acc_fd < 0)
Call_extract_streams ==
    /\ \/ pc = "extract_computed"
       \/ pc = "extract" /\ ~AccumNeeded(acc_fd)
    /\ Call("extract_streams")
    /\ argsExtract' = <<threshold, mont_exp, opt.weight # NULL>>
    /\ UNCHANGED <<opt, threshold, d8cut, mont_exp, ele_fd, acc_fd, weight_fd,
                   mem, argAccum, accData, weightData, sfd, warned, rasters, dvars>>

\* if (extract_streams(...) < 0) G_fatal_error(...)
Return_extract_streams ==
    /\ pc = "in_extract_streams"
    /\ \E r \in StageResults :
          Return("extract_streams", r)
    /\ UNCHANGED <<opt, threshold, d8cut, mont_exp, ele_fd, acc_fd, weight_fd,
                   mem, argsExtract, argAccum, accData, weightData, sfd,
                   warned, rasters, dvars>>

\* stream is released together with the input arrays
Frees_with_stream ==
    <<"ele", "acc", "stream">> \o
        (IF opt.weight # NULL THEN <<"accweight">> ELSE <<>>)

\* the G_free calls that follow extract_streams
Frees ==
    <<"ele", "acc">> \o (IF opt.weight # NULL THEN <<"accweight">> ELSE <<>>)

\* G_free(ele); G_free(acc); if (input.weight->answer) G_free(accweight);
FreeInputs ==
    /\ pc = "free_inputs"
    /\ mem' = [a \in Arrays |->
                  IF \E i \in 1..Len(Frees) : Frees[i] = a THEN "freed"
                  ELSE mem[a]]
    /\ log' = log \o [i \in 1..Len(Frees) |-> <<"free", Frees[i]>>]
    /\ Continue
    /\ UNCHANGED <<opt, threshold, d8cut, mont_exp, ele_fd, acc_fd, weight_fd,
                   argsExtract, argAccum, accData, weightData, sfd,
                   warned, rasters, dvars>>

\* thin_streams() is entered
Call_thin_streams ==
    /\ pc = "thin_streams"
    /\ Call("thin_streams")
    /\ UNCHANGED <<opt, threshold, d8cut, mont_exp, ele_fd, acc_fd, weight_fd,
                   mem, argsExtract, argAccum, accData, weightData, sfd,
                   warned, rasters, dvars>>

\* if (thin_streams() < 0) G_fatal_error(...)
Return_thin_streams ==
    /\ pc = "in_thin_streams"
    /\ \E r \in StageResults :
          Return("thin_streams", r)
    /\ UNCHANGED <<opt, threshold, d8cut, mont_exp, ele_fd, acc_fd, weight_fd,
                   mem, argsExtract, argAccum, accData, weightData, sfd,
                   warned, rasters, dvars>>

\* close_maps(stream_rast, stream_vect, dir_rast) is entered
Call_close_maps ==
    /\ pc = "close_maps"
    /\ Call("close_maps")
    /\ UNCHANGED <<opt, threshold, d8cut, mont_exp, ele_fd, acc_fd, weight_fd,
                   mem, argsExtract, argAccum, accData, weightData, sfd,
                   warned, rasters, dvars>>

\* if (close_maps(...) < 0) G_fatal_error(...)
Return_close_maps ==
    /\ pc = "in_close_maps"
    /\ \E r \in StageResults :
          Return("close_maps", r)
    /\ UNCHANGED <<opt, threshold, d8cut, mont_exp, ele_fd, acc_fd, weight_fd,
                   mem, argsExtract, argAccum, accData, weightData, sfd,
                   warned, rasters, dvars>>

\* G_free(stream);
FreeStream ==
    /\ pc = "free_stream"
    /\ mem' = [mem EXCEPT !["stream"] = "freed"]
    /\ log' = Append(log, <<"free", "stream">>)
    /\ Continue
    /\ UNCHANGED <<opt, threshold, d8cut, mont_exp, ele_fd, acc_fd, weight_fd,
                   argsExtract, argAccum, accData, weightData, sfd,
                   warned, rasters, dvars>>

\* exit(EXIT_SUCCESS);
ExitSuccess ==
    /\ pc = "exit_success"
    /\ pc' = "exit"
    /\ exitStatus' = "EXIT_SUCCESS"
    /\ UNCHANGED <<opt, threshold, d8cut, mont_exp, ele_fd, acc_fd, weight_fd,
                   mem, log, argsExtract, argAccum, accData, weightData, sfd,
                   fatalMsg, warned, rasters, dvars>>

Next ==
    \/ G_parser
    \/ CheckElevation
    \/ CheckAccumulation
    \/ CheckWeight
    \/ CheckThreshold
    \/ CheckD8cut
    \/ CheckMexp
    \/ CheckOutput
    \/ OpenElevation
    \/ OpenAccumulation
    \/ OpenWeight
    \/ Allocate
    \/ Call_load_maps
    \/ Return_load_maps
    \/ Call_do_astar
    \/ Return_do_astar
    \/ Call_do_accum
    \/ Return_do_accum
    \/ Call_extract_streams
    \/ Return_extract_streams
    \/ FreeInputs
    \/ Call_thin_streams
    \/ Return_thin_streams
    \/ Call_close_maps
    \/ Return_close_maps
    \/ FreeStream
    \/ ExitSuccess

Spec == Init /\ [][Next]_vars

----------------------------------------------------------------------------
(* The direction table as a function of a neighbour offset *)

InitDrain ==
    /\ MainStart
    /\ rasters = {}
    /\ dOff \in {<<a, b>> : a \in Offsets, b \in Offsets}
    /\ dCode = <<-1, -1>>

\* code = drain[dRow + 1][dCol + 1] for the k-th offset
DrainLookup(k) ==
    /\ dCode[k] = -1
    /\ dCode' = [dCode EXCEPT ![k] = DrainAt(dOff[k][1], dOff[k][2])]
    /\ UNCHANGED <<dOff, mvars>>

LookupFirst == DrainLookup(1)
LookupSecond == DrainLookup(2)

NextDrain ==
    \/ LookupFirst
    \/ LookupSecond

SpecDrain == InitDrain /\ [][NextDrain]_vars

----------------------------------------------------------------------------
(* Vocabulary of the properties *)

\* G_parser has accepted the command line
Parsed == opt \in ParsedOptions

ValidationMsgs == {"elevation", "accumulation", "weight", "threshold",
                   "d8cut", "mexp", "output"}
ValidationPcs == {"check_ele", "check_acc", "check_weight", "check_threshold",
                  "check_d8cut", "check_mexp", "check_output"}

\* the option checks in the order of the specification
CheckOrder == <<"elevation", "accumulation", "weight", "threshold", "d8cut",
                "mexp", "output">>

\* the check applies to the options o
Applies(c, o) ==
    CASE c = "accumulation" -> o.accumulation # NULL
      [] c = "weight" -> o.weight # NULL
      [] c = "d8cut" -> o.d8cut # "infinity"
      [] c = "mexp" -> o.mexp # NULL
      [] OTHER -> TRUE

\* the check rejects the options o in the data base r
Fails(c, o, r) ==
    CASE c = "elevation" -> o.elevation \notin r
      [] c = "accumulation" -> o.accumulation \notin r
      [] c = "weight" -> o.weight \notin r
      [] c = "threshold" -> atof(o.threshold) <= 0
      [] c = "d8cut" -> atof(o.d8cut) < 0
      [] c = "mexp" -> atof(o.mexp) < 0
      [] c = "output" -> o.stream_rast = NULL /\ o.stream_vect = NULL
      [] OTHER -> FALSE

Rejected(o, r) ==
    {k \in 1..Len(CheckOrder) :
        Applies(CheckOrder[k], o) /\ Fails(CheckOrder[k], o, r)}

\* the earliest check in the order that rejects, "" if none does
FirstFailing(o, r) ==
    IF Rejected(o, r) = {} THEN ""
    ELSE CheckOrder[CHOOSE k \in Rejected(o, r) :
                        \A j \in Rejected(o, r) : k <= j]

\* the checks evaluated so far, in the order of their evaluation
RECURSIVE ChecksOf(_)
ChecksOf(l) ==
    IF l = <<>> THEN <<>>
    ELSE IF Head(l)[1] = "check" THEN <<Head(l)[2]>> \o ChecksOf(Tail(l))
    ELSE ChecksOf(Tail(l))

\* the checks up to and including check c that apply to o, in order
RECURSIVE ExpectedUpTo(_, _, _)
ExpectedUpTo(k, c, o) ==
    IF k > Len(CheckOrder) THEN <<>>
    ELSE (IF Applies(CheckOrder[k], o) THEN <<CheckOrder[k]>> ELSE <<>>) \o
         (IF CheckOrder[k] = c THEN <<>> ELSE ExpectedUpTo(k + 1, c, o))

InvalidParameter ==
    \/ atof(opt.threshold) <= 0
    \/ opt.d8cut # "infinity" /\ atof(opt.d8cut) < 0
    \/ atof(opt.mexp) < 0
    \/ opt.stream_rast = NULL /\ opt.stream_vect = NULL

NoStageCalled == \A s \in Stages : ~Logged("call", s)
NothingAllocated ==
    /\ \A a \in Arrays : mem[a] = "none"
    /\ \A a \in Arrays : ~Logged("alloc", a)

----------------------------------------------------------------------------
\* C1: when threshold <= 0, or d8cut is not "infinity" and < 0, or mexp < 0,
\* or neither stream_rast nor stream_vect is requested, main never leaves the
\* option checks except through a fatal error, and no grid array is allocated
\* and no stage is called.
C1_InvalidParameterIsFatalBeforeAllocation ==
    (Parsed /\ InvalidParameter) =>
        /\ NothingAllocated
        /\ NoStageCalled
        /\ pc \in ValidationPcs \cup {"exit"}
        /\ pc = "exit" =>
              /\ exitStatus = "EXIT_FAILURE"
              /\ fatalMsg \in ValidationMsgs

\* a run rejected only for asking for no stream output, with the direction
\* output requested
C1_Witness ==
    /\ pc = "exit"
    /\ Parsed
    /\ fatalMsg = "output"
    /\ opt.direction # NULL
    /\ atof(opt.threshold) > 0
    /\ NothingAllocated

----------------------------------------------------------------------------
PriorStages == {"load_maps", "do_astar", "extract_streams", "thin_streams"}

\* C2: close_maps is called only after load_maps, do_astar, do_accum (when
\* run), extract_streams and thin_streams returned success; a negative status
\* of a stage is the last event of the run: fatal error, no later stage, and
\* close_maps is not called after it.
C2_WriterOnlyAfterSuccess ==
    /\ Logged("call", "close_maps") =>
          /\ \A s \in PriorStages :
                /\ Logged("ret_ok", s)
                /\ Pos("ret_ok", s) < Pos("call", "close_maps")
          /\ Logged("call", "do_accum") =>
                /\ Logged("ret_ok", "do_accum")
                /\ Pos("ret_ok", "do_accum") < Pos("call", "close_maps")
    /\ \A s \in Stages :
          Logged("ret_fail", s) =>
             /\ Pos("ret_fail", s) = Len(log)
             /\ pc = "exit"
             /\ exitStatus = "EXIT_FAILURE"
             /\ fatalMsg = s
             /\ s # "close_maps" => ~Logged("call", "close_maps")

\* thin_streams failed after every earlier stage succeeded
C2_Witness ==
    /\ Logged("ret_fail", "thin_streams")
    /\ Logged("ret_ok", "extract_streams")
    /\ pc = "exit"

----------------------------------------------------------------------------
StageOrder == <<"do_astar", "do_accum", "extract_streams", "thin_streams",
                "close_maps">>

\* C3: each stage is called at most once, and for stages s before t in the
\* order Sorter, Accumulator, Classifier, Thinner, Writer that are both
\* called, s has returned before t is called.
C3_StagesInOrder ==
    /\ \A s \in Stages : Count("call", s) <= 1
    /\ \A i, j \in 1..Len(StageOrder) :
          (i < j /\ Logged("call", StageOrder[j])) =>
             /\ Logged("call", StageOrder[i]) =>
                   /\ Logged("ret_ok", StageOrder[i])
                   /\ Pos("call", StageOrder[i]) < Pos("ret_ok", StageOrder[i])
                   /\ Pos("ret_ok", StageOrder[i]) < Pos("call", StageOrder[j])
             /\ StageOrder[i] # "do_accum" => Logged("call", StageOrder[i])

\* a run in which all five stages were called
C3_Witness ==
    /\ \A i \in 1..Len(StageOrder) : Logged("call", StageOrder[i])
    /\ exitStatus = "EXIT_SUCCESS"

----------------------------------------------------------------------------
\* C4: do_accum is never called when an accumulation map is given; without
\* one it has been called exactly once, between do_astar and extract_streams,
\* by the time extract_streams is called; extract_streams gets threshold,
\* mexp and weight-given in both cases, and a successful run with an
\* accumulation map still runs do_astar, extract_streams, thin_streams and
\* close_maps once each.
C4_AccumulatorIffNoAccumulationMap ==
    /\ (Parsed /\ opt.accumulation # NULL) => ~Logged("call", "do_accum")
    /\ Logged("call", "extract_streams") =>
          /\ argsExtract =
                <<atof(opt.threshold), atof(opt.mexp), opt.weight # NULL>>
          /\ opt.accumulation = NULL =>
                /\ Count("call", "do_accum") = 1
                /\ Pos("ret_ok", "do_astar") < Pos("call", "do_accum")
                /\ Pos("call", "do_accum") < Pos("ret_ok", "do_accum")
                /\ Pos("ret_ok", "do_accum") < Pos("call", "extract_streams")
    /\ (exitStatus = "EXIT_SUCCESS" /\ opt.accumulation # NULL) =>
          \A s \in {"do_astar", "extract_streams", "thin_streams",
                    "close_maps"} : Count("ret_ok", s) = 1

\* a successful run with an accumulation map (opened as descriptor 0)
C4_Witness ==
    /\ exitStatus = "EXIT_SUCCESS"
    /\ opt.accumulation # NULL
    /\ acc_fd = 0
    /\ ~Logged("call", "do_accum")
    /\ Logged("ret_ok", "extract_streams")

----------------------------------------------------------------------------
\* C5: with d8cut "infinity" the SFD fallback never triggers: no cell
\* do_accum processes has 'accumulation larger than d8cut'.
C5_InfinityNeverTriggersSFD ==
    (Parsed /\ opt.d8cut = "infinity" /\ sfd # <<>>) =>
        \A i \in 1..NCells : ~sfd[i]

----------------------------------------------------------------------------
\* C6 as stated: the arrays are allocated once before any stage runs and an
\* array is released only after close_maps has completed.
C6_ReleasedOnlyAfterWriter ==
    /\ \A a \in Arrays : Count("alloc", a) <= 1
    /\ \A a \in Arrays : mem[a] = "freed" => Logged("ret_ok", "close_maps")

InputArrays == {"ele", "acc", "accweight"}

\* C6 amended: every array is allocated at most once and before load_maps is
\* called (accweight iff a weight map is given); ele, acc and accweight are
\* released after extract_streams returned success and before thin_streams
\* is called; stream is released only after close_maps returned success.
C6_ReleaseAfterLastUse ==
    /\ \A a \in Arrays : Count("alloc", a) <= 1
    /\ \A a \in Arrays : Count("free", a) <= 1
    /\ Logged("call", "load_maps") =>
          \A a \in Arrays :
             IF a = "accweight" /\ opt.weight = NULL
             THEN mem[a] = "none"
             ELSE /\ Logged("alloc", a)
                  /\ Pos("alloc", a) < Pos("call", "load_maps")
    /\ \A a \in InputArrays :
          /\ mem[a] = "freed" =>
                /\ Logged("ret_ok", "extract_streams")
                /\ Pos("ret_ok", "extract_streams") < Pos("free", a)
          /\ (Logged("call", "thin_streams") /\ mem[a] # "none") =>
                /\ mem[a] = "freed"
                /\ Pos("free", a) < Pos("call", "thin_streams")
    /\ mem["stream"] = "freed" =>
          /\ Logged("ret_ok", "close_maps")
          /\ Pos("ret_ok", "close_maps") < Pos("free", "stream")
    /\ \A s \in {"thin_streams", "close_maps"} :
          pc = "in_" \o s => mem["stream"] = "live"

\* thin_streams is running: the input arrays (weight included) are already
\* released and stream is live
C6_Witness ==
    /\ pc = "in_thin_streams"
    /\ \A a \in InputArrays : mem[a] = "freed"
    /\ mem["stream"] = "live"

----------------------------------------------------------------------------
\* the run did everything it had to do, successfully
FullSuccess ==
    /\ Parsed
    /\ FirstFailing(opt, rasters) = ""
    /\ fatalMsg = ""
    /\ ele_fd >= 0
    /\ opt.accumulation # NULL => acc_fd >= 0
    /\ opt.weight # NULL => weight_fd >= 0
    /\ \A a \in Arrays : Logged("alloc", a) <=> (a = "accweight" => opt.weight # NULL)
    /\ \A s \in Stages : ~Logged("ret_fail", s)
    /\ \A s \in Stages \ {"do_accum"} : Logged("ret_ok", s)
    /\ opt.accumulation = NULL => Logged("ret_ok", "do_accum")

\* C7: the run ends with EXIT_SUCCESS only after parsing, every check, every
\* open and load and every stage succeeded; a run that ended otherwise, and
\* every run ended by a fatal error, has EXIT_FAILURE.
C7_ExitStatus ==
    /\ exitStatus = "EXIT_SUCCESS" => (pc = "exit" /\ FullSuccess)
    /\ pc = "exit" => exitStatus \in {"EXIT_SUCCESS", "EXIT_FAILURE"}
    /\ (pc = "exit" /\ ~FullSuccess) => exitStatus = "EXIT_FAILURE"
    /\ fatalMsg # "" => (pc = "exit" /\ exitStatus = "EXIT_FAILURE")
    /\ pc # "exit" => exitStatus = "running"

\* a successful run with an accumulation and a weight map
C7_Witness ==
    /\ exitStatus = "EXIT_SUCCESS"
    /\ opt.accumulation # NULL
    /\ opt.weight # NULL
    /\ Logged("ret_ok", "close_maps")

----------------------------------------------------------------------------
\* C8: mexp > 3 is never the fatal error; the check warns and passes the
\* value on unchanged to extract_streams; the outcome of the validation is
\* the one of the same options with mexp in 0..3; mexp in 0..3 does not warn.
C8_MexpAboveThreeIsAdvisory ==
    /\ (Parsed /\ atof(opt.mexp) > 3) =>
          /\ fatalMsg # "mexp"
          /\ Logged("check", "mexp") =>
                /\ warned
                /\ mont_exp = atof(opt.mexp)
          /\ Logged("call", "extract_streams") =>
                argsExtract[2] = atof(opt.mexp)
          /\ fatalMsg \in ValidationMsgs =>
                fatalMsg = FirstFailing([opt EXCEPT !.mexp = "0"], rasters)
          /\ (pc \notin ValidationPcs /\ fatalMsg \notin ValidationMsgs) =>
                FirstFailing([opt EXCEPT !.mexp = "0"], rasters) = ""
    /\ (Parsed /\ atof(opt.mexp) >= 0 /\ atof(opt.mexp) <= 3) => ~warned

\* a successful run with mexp = 4
C8_Witness ==
    /\ exitStatus = "EXIT_SUCCESS"
    /\ warned
    /\ opt.mexp = "4"
    /\ argsExtract[2] = 4

----------------------------------------------------------------------------
Abs(x) == IF x < 0 THEN -x ELSE x
Opposite(o) == <<-o[1], -o[2]>>

\* C9: drain maps the 9 offsets one-to-one onto 0..8, gives 0 to the zero
\* offset only, and gives opposite non-zero offsets codes that differ by 4.
C9_DrainEncoding ==
    /\ \A k \in 1..2 :
          dCode[k] # -1 =>
             /\ dCode[k] \in 0..8
             /\ dCode[k] = 0 <=> dOff[k] = <<0, 0>>
    /\ (dCode[1] # -1 /\ dCode[2] # -1) =>
          /\ dCode[1] = dCode[2] <=> dOff[1] = dOff[2]
          /\ (dOff[1] # <<0, 0>> /\ dOff[2] = Opposite(dOff[1])) =>
                Abs(dCode[1] - dCode[2]) = 4
    /\ {DrainAt(o[1], o[2]) : o \in Offsets} = 0..8

\* both codes looked up for a pair of opposite diagonal offsets
C9_Witness ==
    /\ dOff = << <<1, -1>>, <<-1, 1>> >>
    /\ dCode = <<1, 5>>

----------------------------------------------------------------------------
IsPrefix(a, b) == Len(a) <= Len(b) /\ \A i \in 1..Len(a) : a[i] = b[i]

\* C10: the checks are evaluated in the order elevation, accumulation,
\* weight, threshold, d8cut, mexp, output (those that apply); the run stops
\* at the first check that fails, which is the earliest failing one in this
\* order, and evaluates no later check.
C10_ValidationOrder ==
    Parsed =>
        /\ IsPrefix(ChecksOf(log), ExpectedUpTo(1, "output", opt))
        /\ fatalMsg \in ValidationMsgs =>
              /\ fatalMsg = FirstFailing(opt, rasters)
              /\ ChecksOf(log) = ExpectedUpTo(1, fatalMsg, opt)
        /\ (pc \notin ValidationPcs /\ fatalMsg \notin ValidationMsgs) =>
              /\ FirstFailing(opt, rasters) = ""
              /\ ChecksOf(log) = ExpectedUpTo(1, "output", opt)

\* elevation is missing and threshold, d8cut and mexp are invalid too: the
\* missing map is reported and nothing else was checked
C10_Witness ==
    /\ pc = "exit"
    /\ Parsed
    /\ fatalMsg = "elevation"
    /\ atof(opt.threshold) <= 0
    /\ atof(opt.d8cut) < 0
    /\ atof(opt.mexp) < 0
    /\ ChecksOf(log) = <<"elevation">>

====
